---------------------------- MODULE Spec2Model ----------------------------
(***************************************************************************)
(* A model of the resilient streaming completion client of gpt-pilot:      *)
(*   src/core/llm/bedrock_client.py   BedrockClient                        *)
(*     _adapt_messages    (ConversationAdapter.transform)                  *)
(*     single_attempt     (StreamingRequestExecutor.execute)               *)
(*     _make_request      (RetryController.run)                            *)
(*     rate_limit_sleep   (RateLimitAdvisor.adviseCooldown)                *)
(*                                                                         *)
(* The specifications of the module:                                       *)
(*   SpecAdapter    _adapt_messages applied to every bounded conversation  *)
(*   Spec           one call of _make_request, step by step                *)
(*   SpecRateLimit  rate_limit_sleep applied to every bounded signal       *)
(*   SpecOptions    the completion_kwargs of single_attempt for every      *)
(*                  configuration                                          *)
(*   SpecPair       two calls of _make_request as tasks of one event loop  *)
(*   SpecWeb        src/core/ui/web_server.py: a WebUIServer, its          *)
(*                  websocket messages and its ask_question calls          *)
(***************************************************************************)
EXTENDS Integers, Sequences, FiniteSets, TLC

VARIABLES
    adapterIn,   \* the convo.messages handed to _adapt_messages
    adapterOut,  \* what _adapt_messages produced for adapterIn
    run,         \* the state of one call of _make_request
    rlIn,        \* the rate-limit signal (err.response.headers) and the clock
    rlOut,       \* what rate_limit_sleep produced for rlIn
    optIn,       \* the configuration and arguments the request options come from
    optOut,      \* the completion_kwargs single_attempt built from optIn
    other,       \* a second call of _make_request, suspended at an await
    web          \* the state of a WebUIServer and of its ask_question calls

vars == <<adapterIn, adapterOut, run, rlIn, rlOut, optIn, optOut, other, web>>

(***************************************************************************)
(* Bounds of the model.                                                    *)
(***************************************************************************)
MaxMsgs == 4        \* longest conversation given to _adapt_messages alone
MaxRunMsgs == 2     \* longest conversation given to a whole _make_request
MaxRetries == 2     \* largest retry_count passed to _make_request
MaxFrags == 2       \* most fragments the transport streams during one run
MaxClock == 6       \* latest second of the minute a timestamp or the clock shows

\* two concurrent calls, each with a handler: the largest retry_count of
\* the first (the second has none) and the fragments of both together
MaxPairRetries == 1

MaxPairFrags == 1

\* the web server: the ask_question calls followed and the websockets
MaxQuestions == 2

MaxSockets == 2

(***************************************************************************)
(* Conversations.                                                          *)
(***************************************************************************)
Roles == {"user", "assistant", "system", "function"}

\* Message contents; one is empty and one holds the separator itself.
Contents == {"Hi", "", "a\n\nb"}

Messages == [role : Roles, content : Contents]

\* the messages of a conversation handed to a whole _make_request: one role
\* of each kind the adapter tells apart (kept, mapped to assistant, refused)
RunRoles == {"user", "assistant", "function"}

RunMessages == [role : RunRoles, content : {"Hi"}]

SeqsUpTo(S, n) == UNION {[1..k -> S] : k \in 0..n}

Conversations == SeqsUpTo(Messages, MaxMsgs)

RunConversations == SeqsUpTo(RunMessages, MaxRunMsgs)

(***************************************************************************)
(* _adapt_messages, bedrock_client.py lines 38-63.                         *)
(***************************************************************************)
\* line 50: the role Claude cannot take
IsFunctionRole(msg) == msg.role = "function"

\* line 53: role = "user" if msg["role"] in ["user", "system"] else "assistant"
MapRole(role) == IF role \in {"user", "system"} THEN "user" ELSE "assistant"

\* a merge test that never merges
SameRoleAsLastNever(messages, role) == FALSE

\* line 54: messages and messages[-1]["role"] == role
SameRoleAsLast(messages, role) ==
    /\ messages # <<>>
    /\ messages[Len(messages)].role = role

\* a merge that forgets the separator
MergeContentNoSeparator(old, new) == old \o new

\* line 55: messages[-1]["content"] += "\n\n" + msg["content"]
MergeContent(old, new) == old \o "\n\n" \o new

\* a turn that is the caller's own message object: messages.append(msg)
SharesCallersMessage(index) == index

\* lines 57-62: the appended turn is a new dict; it shares no object with
\* the caller's list (0), so writing to it writes to nothing of the caller's
SharesNothing(index) == 0

\* line 55 seen from the caller: the += writes to messages[-1]; the caller's
\* list `given` changes only where that turn is one of its own messages
GivenAfterMerge(given, shared, new) ==
    IF shared = 0
    THEN given
    ELSE [given EXCEPT ![shared].content = MergeContent(@, new)]

\* lines 49-62: the loop, with `rest` the messages still to visit,
\* `messages` the list built so far, `given` the caller's list and
\* `shares` what each built turn shares with it
RECURSIVE AdaptLoop(_, _, _, _)
AdaptLoop(rest, messages, given, shares) ==
    IF rest = <<>>
    THEN [raised |-> FALSE, messages |-> messages, given |-> given]
    ELSE LET msg == Head(rest) IN
         IF IsFunctionRole(msg)
         THEN [raised |-> TRUE, error |-> "ValueError", given |-> given]
         ELSE LET role == MapRole(msg.role) IN
              IF SameRoleAsLast(messages, role)
              THEN AdaptLoop(Tail(rest),
                     [messages EXCEPT ![Len(messages)].content =
                                         MergeContent(@, msg.content)],
                     GivenAfterMerge(given, shares[Len(shares)], msg.content),
                     shares)
              ELSE AdaptLoop(Tail(rest),
                     Append(messages, [role |-> role, content |-> msg.content]),
                     given,
                     Append(shares, SharesNothing(Len(given) - Len(rest) + 1)))

\* lines 48-63: messages = []; the loop; return messages
AdaptMessages(convoMessages) == AdaptLoop(convoMessages, <<>>, convoMessages, <<>>)

(***************************************************************************)
(* SpecAdapter: _adapt_messages on every conversation within the bounds.   *)
(***************************************************************************)
NotCalled == [called |-> FALSE]

IdleRun == [pc |-> "idle"]

\* no signal: an empty header map and the clock at zero
IdleRateLimit == [headers |-> <<>>, now |-> 0]

\* no configuration looked at
IdleOptions == [model |-> ""]

\* no server constructed
IdleWeb == [constructed |-> FALSE]

InitAdapter ==
    /\ adapterIn \in Conversations
    /\ adapterOut = NotCalled
    /\ run = IdleRun
    /\ other = IdleRun
    /\ web = IdleWeb
    /\ rlIn = IdleRateLimit
    /\ rlOut = NotCalled
    /\ optIn = IdleOptions
    /\ optOut = NotCalled

Transform ==
    /\ adapterOut = NotCalled
    /\ adapterOut' = [called |-> TRUE, out |-> AdaptMessages(adapterIn)]
    /\ UNCHANGED <<adapterIn, run, rlIn, rlOut, optIn, optOut, other, web>>

NextAdapter == Transform

SpecAdapter == InitAdapter /\ [][NextAdapter]_vars


(***************************************************************************)
(* _make_request and single_attempt, bedrock_client.py lines 65-116.       *)
(*                                                                         *)
(* run is a record: the call's arguments (convo, retry_count, handler),    *)
(* its locals (attempt, messages, response, final_usage, exc), its         *)
(* position pc, its outcome (result or error) and what an observer of the  *)
(* call sees: attempts (calls of single_attempt), opens (streams opened),  *)
(* sleeps (the asyncio.sleep delays), wire (the fragments text_stream      *)
(* yielded), finals (the usage of each final message received), sink (the  *)
(* calls of stream_handler), raisedBy (the exception that left each        *)
(* single_attempt that raised) and returnedBy (the value of each           *)
(* single_attempt that returned), returns (how many calls of               *)
(* stream_handler have returned), faults (what the transport raised, and   *)
(* where), given (the caller's message list as it was at the call; convo   *)
(* is that list as it is now), sent (the turns each stream request         *)
(* carried) and leaving (the exception that is on its way out of the       *)
(* `async with` block while its __aexit__ is awaited; none when the block  *)
(* ended normally).                                                        *)
(*                                                                         *)
(* The transport (self.client) and the handler are outside the module:     *)
(* their answers are chosen freely at each step.  A call of the handler    *)
(* returns or raises; what it raises is what the repository's own sink,    *)
(* WebUIServer.send_stream_chunk, raises.                                  *)
(***************************************************************************)
Fragments == {"a", "b"}

\* final_message.usage as the transport reports it
Usages == {[input_tokens |-> 3, output_tokens |-> 1],
           [input_tokens |-> 4, output_tokens |-> 2]}

RetryCounts == (-1)..MaxRetries

NoExc == [kind |-> "none", at |-> "", attempts |-> 0, msg |-> ""]

\* an exception of class kind raised at the place `at`
Exc(kind, at, msg) == [kind |-> kind, at |-> at, attempts |-> 0, msg |-> msg]

NoUsage == [input_tokens |-> 0, output_tokens |-> 0]

NoResult == [kind |-> "unset", text |-> "", input_tokens |-> 0, output_tokens |-> 0]

\* the value of a call that falls off the end of the function
PyNone == [kind |-> "None", text |-> "", input_tokens |-> 0, output_tokens |-> 0]

\* line 65: the state on entry to _make_request
StartRun(convo, retry_count, handler) ==
    [pc |-> "loop", convo |-> convo, retry_count |-> retry_count,
     handler |-> handler, attempt |-> 0, messages |-> <<>>, response |-> <<>>,
     final_usage |-> NoUsage, exc |-> NoExc, result |-> NoResult,
     error |-> NoExc, attempts |-> 0, opens |-> 0, sleeps |-> <<>>,
     wire |-> <<>>, finals |-> <<>>, sink |-> <<>>, raisedBy |-> <<>>,
     returnedBy |-> <<>>, returns |-> 0, faults |-> <<>>,
     given |-> convo, sent |-> <<>>, leaving |-> NoExc]

\* line 108: attempt in range(retry_count + 1)
InRange(attempt, retry_count) == attempt < retry_count + 1

\* an accumulator carried over from the attempt before
NewResponseKeepsOld(r) == r.response

\* line 86: response = []
NewResponse(r) == <<>>

\* line 100: "".join(response)
RECURSIVE JoinStr(_)
JoinStr(parts) == IF parts = <<>> THEN "" ELSE Head(parts) \o JoinStr(Tail(parts))

\* a handler that is told nothing at the end
SinkAfterSentinelSkipped(r) == r.sink

\* lines 103-104: if self.stream_handler: await self.stream_handler(None)
SinkAfterSentinel(r) ==
    IF r.handler
    THEN Append(r.sink, [attempt |-> r.attempts, end |-> TRUE, text |-> ""])
    ELSE r.sink

\* a handler call that is started and not waited for
PcAfterFragmentNotAwaited(r) == "stream"

\* line 91: await: the attempt goes on only when the handler has returned
PcAfterFragment(r) == IF r.handler THEN "sink" ELSE "stream"

\* a handler whose earlier output is taken back when a new attempt streams
SinkAfterFragmentWithdraws(r, content) ==
    IF r.handler
    THEN Append(SelectSeq(r.sink, LAMBDA e : e.attempt = r.attempts),
                [attempt |-> r.attempts, end |-> FALSE, text |-> content])
    ELSE r.sink

\* lines 90-91: if self.stream_handler: await self.stream_handler(content)
SinkAfterFragment(r, content) ==
    IF r.handler
    THEN Append(r.sink, [attempt |-> r.attempts, end |-> FALSE, text |-> content])
    ELSE r.sink

\* a handler clause that catches every exception
CatchesEverything(exc) == TRUE

\* line 111: except CustomAssertionError as e
Catches(exc) == exc.kind = "CustomAssertionError"

\* a final error that reports the loop index
ExhaustedErrorLoopIndex(r) ==
    [kind |-> "CustomAssertionError", at |-> "retry",
     attempts |-> r.attempt, msg |-> r.exc.msg]

\* line 113: CustomAssertionError(f"Request failed after {retry_count + 1}
\* attempts: {str(e)}")
ExhaustedError(r) ==
    [kind |-> "CustomAssertionError", at |-> "retry",
     attempts |-> r.retry_count + 1, msg |-> r.exc.msg]

\* a delay that doubles with each attempt
SleepSecondsBackoff(attempt) == 2 ^ attempt

\* line 115: asyncio.sleep(1)
SleepSeconds(attempt) == 1

\* an attempt that tells the handler the stream is over in a finally clause
RaiseInAttemptThenSentinel(r, exc) ==
    [r EXCEPT !.pc = "except", !.exc = exc, !.raisedBy = Append(@, exc),
              !.sink = SinkAfterSentinel(r)]

\* an exception leaves single_attempt
RaiseInAttempt(r, exc) ==
    [r EXCEPT !.pc = "except", !.exc = exc, !.raisedBy = Append(@, exc)]

\* line 106: return response_str, input_tokens, output_tokens, and line 110
ReturnFromAttempt(r) ==
    LET value == [kind |-> "tuple", text |-> JoinStr(r.response),
                  input_tokens |-> r.final_usage.input_tokens,
                  output_tokens |-> r.final_usage.output_tokens]
    IN [r EXCEPT !.pc = "returned", !.result = value,
                 !.returnedBy = Append(@, [attempt |-> r.attempts, value |-> value])]

\* web_server.py lines 170-171 and 130: what a call of the handler can
\* raise: UIClosedError when the server is not running, RuntimeError when
\* the set of sockets changes while _broadcast iterates over it
HandlerErrors == {"UIClosedError", "RuntimeError"}

\* what the transport boundary can raise: an error of the provider, or an
\* assertion of the anthropic package
TransportErrors == {"ProviderError", "AssertionError"}

\* a try block that spans the whole stream
RaisedForFaultAnywhere(at, kind) ==
    IF kind = "AssertionError"
    THEN Exc("CustomAssertionError", at, "No final message received.")
    ELSE Exc(kind, at, "provider")

\* lines 93-98: only an AssertionError of get_final_message becomes a
\* CustomAssertionError; everything else leaves as it was raised
RaisedForFault(at, kind) ==
    IF at = "final" /\ kind = "AssertionError"
    THEN Exc("CustomAssertionError", "final", "No final message received.")
    ELSE Exc(kind, at, "provider")

\* the transport raises `kind` at the place `at` of the attempt
WithFault(r, at, kind) ==
    [r EXCEPT !.faults = Append(@, [attempt |-> r.attempts,
                                    at |-> at, kind |-> kind])]

\* line 87, outside the body of the `async with` (__aenter__ or __aexit__
\* raises): the exception leaves single_attempt at once
TransportFault(r, at, kind) ==
    RaiseInAttempt(WithFault(r, at, kind), RaisedForFault(at, kind))

\* line 87, an exception raised in the body of the `async with`: it is
\* handed to __aexit__, which is awaited before the exception goes on
LeaveBody(r, exc) == [r EXCEPT !.pc = "exit", !.leaving = exc]

\* lines 88-98: the transport raises `kind` inside the body
FaultInBody(r, at, kind) ==
    LeaveBody(WithFault(r, at, kind), RaisedForFault(at, kind))

InitRun ==
    /\ run \in {StartRun(c, n, h) : c \in RunConversations, n \in RetryCounts,
                                    h \in BOOLEAN}
    /\ other = IdleRun
    /\ web = IdleWeb
    /\ adapterIn = <<>>
    /\ adapterOut = NotCalled
    /\ rlIn = IdleRateLimit
    /\ rlOut = NotCalled
    /\ optIn = IdleOptions
    /\ optOut = NotCalled

\* what a step of the call in `run` leaves alone, the suspended call apart
Apart == <<adapterIn, adapterOut, rlIn, rlOut, optIn, optOut, web>>

Others == <<Apart, other>>

\* lines 108-110: the for statement takes its next value and calls
\* single_attempt, or the range is used up and the function ends
ForLoop ==
    /\ run.pc = "loop"
    /\ run' = IF InRange(run.attempt, run.retry_count)
              THEN [run EXCEPT !.pc = "adapt", !.attempts = @ + 1]
              ELSE [run EXCEPT !.pc = "returned", !.result = PyNone]
    /\ UNCHANGED Others

\* line 71: messages = self._adapt_messages(convo)
Adapt ==
    /\ run.pc = "adapt"
    /\ LET out == AdaptMessages(run.convo) IN
       run' = IF out.raised
              THEN RaiseInAttempt([run EXCEPT !.convo = out.given],
                       Exc(out.error, "adapt",
                           "Anthropic Claude doesn't support function calling"))
              ELSE [run EXCEPT !.pc = "open", !.messages = out.messages,
                               !.convo = out.given,
                               !.response = NewResponse(run)]
    /\ UNCHANGED Others

\* line 87: async with self.client.messages.stream(...) as stream
OpenStream ==
    /\ run.pc = "open"
    /\ run' = [run EXCEPT !.pc = "stream", !.opens = @ + 1,
                         !.sent = Append(@, run.messages)]
    /\ UNCHANGED Others

\* line 87: the transport refuses the request
OpenFails ==
    /\ run.pc = "open"
    /\ \E kind \in TransportErrors :
         run' = TransportFault([run EXCEPT !.sent = Append(@, run.messages)],
                               "open", kind)
    /\ UNCHANGED Others

\* how many fragments a call is followed for: MaxFrags when it is alone;
\* when a second call shares the event loop, MaxPairFrags for both together
FragLimit == IF other = IdleRun THEN MaxFrags ELSE MaxPairFrags - Len(other.wire)

\* lines 88-91: text_stream yields content; it is appended and handed on
NextFragment ==
    /\ run.pc = "stream"
    /\ Len(run.wire) < FragLimit
    /\ \E content \in Fragments :
         run' = [run EXCEPT
                   !.response = Append(@, content),
                   !.wire = Append(@, [attempt |-> run.attempts, text |-> content]),
                   !.sink = SinkAfterFragment(run, content),
                   !.pc = PcAfterFragment(run)]
    /\ UNCHANGED Others

\* line 91: the awaited stream_handler(content) returns
SinkReturns ==
    /\ run.pc = "sink"
    /\ run' = [run EXCEPT !.pc = "stream", !.returns = @ + 1]
    /\ UNCHANGED Others

\* line 91: the awaited stream_handler(content) raises, in the body of the
\* `async with`: the exception is handed to __aexit__ before it goes on
SinkRaises ==
    /\ run.pc = "sink"
    /\ \E kind \in HandlerErrors :
         run' = LeaveBody(run, Exc(kind, "sink", "handler"))
    /\ UNCHANGED Others

\* line 88: the transport fails while streaming
StreamFails ==
    /\ run.pc = "stream"
    /\ \E kind \in TransportErrors : run' = FaultInBody(run, "stream", kind)
    /\ UNCHANGED Others

\* line 88: text_stream is exhausted
StreamEnds ==
    /\ run.pc = "stream"
    /\ run' = [run EXCEPT !.pc = "final"]
    /\ UNCHANGED Others

\* lines 94-95 and 87: the final message arrives; the body of the
\* `async with` is over and __aexit__ is awaited
FinalMessage ==
    /\ run.pc = "final"
    /\ \E u \in Usages :
         run' = [run EXCEPT !.final_usage = u,
                           !.finals = Append(@, [attempt |-> run.attempts,
                                                 usage |-> u]),
                           !.pc = "exit", !.leaving = NoExc]
    /\ UNCHANGED Others

\* lines 96-98: get_final_message trips an assertion of the package
FinalAssertion ==
    /\ run.pc = "final"
    /\ run' = FaultInBody(run, "final", "AssertionError")
    /\ UNCHANGED Others

\* line 94: get_final_message fails in any other way
FinalFails ==
    /\ run.pc = "final"
    /\ run' = FaultInBody(run, "final", "ProviderError")
    /\ UNCHANGED Others

\* line 87 and lines 100-106: __aexit__ returns.  An exception on its way
\* out goes on out of single_attempt; after a body that ended normally the
\* text is joined and the handler is told the stream is over, or, without
\* a handler, the attempt returns
ExitReturns ==
    /\ run.pc = "exit"
    /\ run' = IF run.leaving # NoExc
              THEN RaiseInAttempt(run, run.leaving)
              ELSE IF run.handler
                   THEN [run EXCEPT !.pc = "sentinel", !.sink = SinkAfterSentinel(run)]
                   ELSE ReturnFromAttempt([run EXCEPT !.sink = SinkAfterSentinel(run)])
    /\ UNCHANGED Others

\* line 87: __aexit__ raises; its exception leaves single_attempt in place
\* of whatever was on its way out
ExitFails ==
    /\ run.pc = "exit"
    /\ \E kind \in TransportErrors : run' = TransportFault(run, "exit", kind)
    /\ UNCHANGED Others

\* lines 104-106 and 110: the awaited stream_handler(None) returns
SentinelReturns ==
    /\ run.pc = "sentinel"
    /\ run' = ReturnFromAttempt([run EXCEPT !.returns = @ + 1])
    /\ UNCHANGED Others

\* line 104: the awaited stream_handler(None) raises, after the
\* `async with`: the exception leaves single_attempt at once
SentinelRaises ==
    /\ run.pc = "sentinel"
    /\ \E kind \in HandlerErrors :
         run' = RaiseInAttempt(run, Exc(kind, "sentinel", "handler"))
    /\ UNCHANGED Others

\* lines 111-116: the except clause
Except ==
    /\ run.pc = "except"
    /\ run' = IF Catches(run.exc)
              THEN IF run.attempt = run.retry_count
                   THEN [run EXCEPT !.pc = "raised", !.error = ExhaustedError(run)]
                   ELSE [run EXCEPT !.pc = "sleep",
                                    !.sleeps = Append(@, SleepSeconds(run.attempt))]
              ELSE [run EXCEPT !.pc = "raised", !.error = run.exc]
    /\ UNCHANGED Others

\* lines 115-116 and 108: the sleep is over; continue with the next attempt
SleepDone ==
    /\ run.pc = "sleep"
    /\ run' = [run EXCEPT !.pc = "loop", !.attempt = @ + 1]
    /\ UNCHANGED Others

\* the awaits of lines 88, 91 and 94, in the body of the `async with`
InBody(r) == r.pc \in {"stream", "sink", "final"}

\* the task running _make_request is cancelled while it awaits inside
\* single_attempt: in the body of the `async with` (lines 88, 91, 94) the
\* CancelledError is handed to __aexit__ first; at __aenter__ or __aexit__
\* (line 87) and at the sentinel call (line 104) it leaves at once
CancelInAttempt ==
    /\ run.pc \in {"open", "stream", "sink", "final", "exit", "sentinel"}
    /\ run' = IF InBody(run)
              THEN LeaveBody(run, Exc("CancelledError", run.pc, ""))
              ELSE RaiseInAttempt(run, Exc("CancelledError", run.pc, ""))
    /\ UNCHANGED Others

\* the task is cancelled while it awaits asyncio.sleep (line 115)
CancelInSleep ==
    /\ run.pc = "sleep"
    /\ run' = [run EXCEPT !.pc = "raised", !.error = Exc("CancelledError", "sleep", "")]
    /\ UNCHANGED Others

Next ==
    \/ ForLoop
    \/ Adapt
    \/ OpenStream
    \/ OpenFails
    \/ NextFragment
    \/ SinkReturns
    \/ SinkRaises
    \/ StreamFails
    \/ StreamEnds
    \/ FinalMessage
    \/ FinalAssertion
    \/ FinalFails
    \/ ExitReturns
    \/ ExitFails
    \/ SentinelReturns
    \/ SentinelRaises
    \/ Except
    \/ SleepDone
    \/ CancelInAttempt
    \/ CancelInSleep

Spec == InitRun /\ [][Next]_vars

(***************************************************************************)
(* SpecWeb: WebUIServer, web_server.py.                                    *)
(*                                                                         *)
(* web holds the fields of the server (running, sockets,                   *)
(* question_id_counter, pending_questions as the set of its keys), the     *)
(* state of the future made for each question id (futures), whether a      *)
(* call of stop() is under way (stopping), the                             *)
(* ask_question calls in the order they were made (asks: where each call   *)
(* is, the id it drew, and the size of sockets when its broadcast loop     *)
(* began), and what an observer has seen: issued (the ids drawn, in        *)
(* order), answered (the ids whose future was given a result) and          *)
(* cancelled (the ids whose ask_question task was cancelled).              *)
(***************************************************************************)
SocketIds == 1..MaxSockets

\* line 227: question_id = str(self.question_id_counter)
QuestionId(counter) == ToString(counter)

\* the question_id of an incoming response: an id that may have been issued,
\* or one that never is
ResponseIds == {QuestionId(n) : n \in 1..(MaxQuestions + 1)}

\* lines 55-58: the fields after __init__
NewServer ==
    [constructed |-> TRUE, running |-> FALSE, sockets |-> {},
     question_id_counter |-> 0, pending_questions |-> {}, stopping |-> FALSE,
     futures |-> <<>>, asks |-> <<>>, issued |-> <<>>,
     answered |-> {}, cancelled |-> {}]

InitWeb ==
    /\ web = NewServer
    /\ run = IdleRun
    /\ other = IdleRun
    /\ adapterIn = <<>>
    /\ adapterOut = NotCalled
    /\ rlIn = IdleRateLimit
    /\ rlOut = NotCalled
    /\ optIn = IdleOptions
    /\ optOut = NotCalled

NotWeb == <<adapterIn, adapterOut, run, rlIn, rlOut, optIn, optOut, other>>

\* lines 136-144: start() succeeds
Start ==
    /\ ~web.running
    /\ web' = [web EXCEPT !.running = TRUE]
    /\ UNCHANGED NotWeb

\* lines 150-161: stop() finds the server running and goes on to await
\* ws.close() for each websocket, site.stop() and runner.cleanup(); it
\* writes neither sockets nor running meanwhile: a closed websocket is
\* taken out of sockets by its own handler (Disconnect)
StopBegins ==
    /\ web.running
    /\ ~web.stopping
    /\ web' = [web EXCEPT !.stopping = TRUE]
    /\ UNCHANGED NotWeb

\* lines 163-164: the awaits of stop() are over; self.running = False
StopEnds ==
    /\ web.stopping
    /\ web' = [web EXCEPT !.running = FALSE, !.stopping = FALSE]
    /\ UNCHANGED NotWeb

\* lines 91-93: a client connects
Connect ==
    /\ web.running
    /\ \E s \in SocketIds \ web.sockets :
         web' = [web EXCEPT !.sockets = @ \cup {s}]
    /\ UNCHANGED NotWeb

\* lines 119-120: a connection ends
Disconnect ==
    /\ \E s \in web.sockets :
         web' = [web EXCEPT !.sockets = @ \ {s}]
    /\ UNCHANGED NotWeb

\* line 226: self.question_id_counter += 1
NextCounter(counter) == counter + 1

\* lines 220-234: ask_question up to its first suspension, inside _broadcast
AskQuestion ==
    /\ Len(web.asks) < MaxQuestions
    /\ web' = IF ~web.running \/ web.sockets = {}
              THEN [web EXCEPT !.asks = Append(@, [pc |-> "closed", id |-> "",
                                                   used |-> 0])]
              ELSE LET counter == NextCounter(web.question_id_counter)
                       id == QuestionId(counter)
                   IN [web EXCEPT
                         !.question_id_counter = counter,
                         !.pending_questions = @ \cup {id},
                         !.futures = [k \in DOMAIN @ \cup {id} |->
                                        IF k = id THEN "pending" ELSE @[k]],
                         !.issued = Append(@, id),
                         !.asks = Append(@, [pc |-> "broadcast", id |-> id,
                                             used |-> Cardinality(web.sockets)])]
    /\ UNCHANGED NotWeb

\* lines 129-134 and 255: the sends are over; ask_question goes on to
\* await future, which returns at once when the future has its result
BroadcastDone ==
    /\ \E i \in DOMAIN web.asks :
         /\ web.asks[i].pc = "broadcast"
         /\ Cardinality(web.sockets) = web.asks[i].used
         /\ web' = [web EXCEPT !.asks[i].pc =
                       IF web.futures[web.asks[i].id] = "result"
                       THEN "returned" ELSE "future"]
    /\ UNCHANGED NotWeb

\* line 129: for ws in self.sockets, resumed after sockets changed its
\* size: RuntimeError leaves _broadcast and ask_question
BroadcastFails ==
    /\ \E i \in DOMAIN web.asks :
         /\ web.asks[i].pc = "broadcast"
         /\ Cardinality(web.sockets) # web.asks[i].used
         /\ web' = [web EXCEPT !.asks[i].pc = "failed"]
    /\ UNCHANGED NotWeb

\* lines 102-111: a response message arrives on a websocket
Response ==
    /\ web.sockets # {}
    /\ \E id \in ResponseIds :
         web' = IF id \in web.pending_questions
                THEN [web EXCEPT
                        !.pending_questions = @ \ {id},
                        !.futures[id] = IF @ = "pending" THEN "result" ELSE @,
                        !.answered = IF web.futures[id] = "pending"
                                     THEN @ \cup {id} ELSE @]
                ELSE web
    /\ UNCHANGED NotWeb

\* line 255: the future has its result; ask_question returns it
AskReturns ==
    /\ \E i \in DOMAIN web.asks :
         /\ web.asks[i].pc = "future"
         /\ web.futures[web.asks[i].id] = "result"
         /\ web' = [web EXCEPT !.asks[i].pc = "returned"]
    /\ UNCHANGED NotWeb

\* line 234: the task is cancelled while it is suspended in _broadcast;
\* CancelledError leaves ask_question from outside the try of line 253
CancelInBroadcast ==
    /\ \E i \in DOMAIN web.asks :
         /\ web.asks[i].pc = "broadcast"
         /\ web' = [web EXCEPT !.asks[i].pc = "cancelled",
                               !.cancelled = @ \cup {web.asks[i].id}]
    /\ UNCHANGED NotWeb

\* line 255: the task is cancelled while it awaits the future; the future
\* is cancelled with it unless it is done, and the task is to be woken
CancelAtFuture ==
    /\ \E i \in DOMAIN web.asks :
         /\ web.asks[i].pc = "future"
         /\ web' = [web EXCEPT
                       !.asks[i].pc = "cancelling",
                       !.futures[web.asks[i].id] =
                           IF @ = "pending" THEN "cancelled" ELSE @,
                       !.cancelled = @ \cup {web.asks[i].id}]
    /\ UNCHANGED NotWeb

\* lines 256-259: except asyncio.CancelledError
CancelledWakes ==
    /\ \E i \in DOMAIN web.asks :
         /\ web.asks[i].pc = "cancelling"
         /\ web' = [web EXCEPT !.asks[i].pc = "closed",
                               !.pending_questions = @ \ {web.asks[i].id}]
    /\ UNCHANGED NotWeb

NextWeb ==
    \/ Start
    \/ StopBegins
    \/ StopEnds
    \/ Connect
    \/ Disconnect
    \/ AskQuestion
    \/ BroadcastDone
    \/ BroadcastFails
    \/ Response
    \/ AskReturns
    \/ CancelInBroadcast
    \/ CancelAtFuture
    \/ CancelledWakes

SpecWeb == InitWeb /\ [][NextWeb]_vars

(***************************************************************************)
(* SpecPair: two calls of _make_request for two conversations, as two      *)
(* tasks of one event loop.  `run` is the task that is running or will be  *)
(* resumed next, `other` the task that is suspended.  A task runs without  *)
(* interruption from one await to the next; at an await the event loop may *)
(* resume the other task.                                                  *)
(***************************************************************************)
PairConversations ==
    << << [role |-> "user", content |-> "Hi"] >>,
       << [role |-> "system", content |-> "Hi"],
          [role |-> "assistant", content |-> "Hi"] >> >>

InitPair ==
    /\ run \in {StartRun(PairConversations[1], n, TRUE) : n \in 0..MaxPairRetries}
    /\ other = StartRun(PairConversations[2], 0, TRUE)
    /\ web = IdleWeb
    /\ adapterIn = <<>>
    /\ adapterOut = NotCalled
    /\ rlIn = IdleRateLimit
    /\ rlOut = NotCalled
    /\ optIn = IdleOptions
    /\ optOut = NotCalled

\* a task that has not run yet
NotStarted(r) == r.pc = "loop" /\ r.attempts = 0

\* a sleep that holds the thread: time.sleep(1)
AtAwaitButSleepBlocks(r) ==
    \/ NotStarted(r)
    \/ r.pc \in {"open", "stream", "sink", "final", "exit", "sentinel"}
    \/ r.pc \in {"returned", "raised"}

\* the task has handed control to the event loop: it has not started, it
\* waits at one of the awaits of lines 87, 88, 91, 94, 104 or at
\* await asyncio.sleep(1) of line 115, or it has finished
AtAwait(r) ==
    \/ NotStarted(r)
    \/ r.pc \in {"open", "stream", "sink", "final", "exit", "sentinel", "sleep"}
    \/ r.pc \in {"returned", "raised"}

\* lines 65-106: everything a call works on is an argument or a local of
\* the call, so a resumed task finds it as it left it
Resume(suspended) == suspended

\* the event loop resumes the suspended task
Switch ==
    /\ other.pc \notin {"idle", "returned", "raised"}
    /\ AtAwait(run)
    /\ run' = Resume(other)
    /\ other' = run
    /\ UNCHANGED Apart

NextPair ==
    \/ Next
    \/ Switch

SpecPair == InitPair /\ [][NextPair]_vars

(***************************************************************************)
(* rate_limit_sleep, bedrock_client.py lines 118-143.                      *)
(*                                                                         *)
(* A header value is what the mapping holds under a key.  The remaining    *)
(* count is a number n held either as the text the HTTP layer delivers     *)
(* (type "str") or as an integer (type "int", a mapping built by hand).    *)
(* A reset timestamp is text of one of four forms, showing second `sec` of *)
(* 2024-01-01T00:00 on its own wall clock:                                 *)
(*   "utc"      2024-01-01T00:00:SSZ                                       *)
(*   "plus1"    2024-01-01T00:00:SS+01:00                                  *)
(*   "naive"    2024-01-01T00:00:SS                                        *)
(*   "garbage"  text that is no ISO-8601 timestamp                         *)
(***************************************************************************)
TokensRemaining == "anthropic-ratelimit-tokens-remaining"

TokensReset == "anthropic-ratelimit-tokens-reset"

RequestsReset == "anthropic-ratelimit-requests-reset"

Absent == [type |-> "absent", n |-> 0]

RemainingValues == [type : {"str", "int"}, n : {0, 5}]

Clock == 0..MaxClock

Timestamps == [form : {"utc", "plus1", "naive"}, sec : Clock]
                  \cup {[form |-> "garbage", sec |-> 0]}

NoTimestamp == [form |-> "absent", sec |-> 0]

\* the header mapping that holds the given values under the keys present
MakeHeaders(remaining, tokens_reset, requests_reset) ==
    LET present == (IF remaining = Absent THEN {} ELSE {TokensRemaining})
                   \cup (IF tokens_reset = NoTimestamp THEN {} ELSE {TokensReset})
                   \cup (IF requests_reset = NoTimestamp THEN {} ELSE {RequestsReset})
    IN [k \in present |->
          IF k = TokensRemaining THEN remaining
          ELSE IF k = TokensReset THEN tokens_reset
          ELSE requests_reset]

Signals ==
    {MakeHeaders(rem, tr, rr) : rem \in RemainingValues \cup {Absent},
                                tr \in Timestamps \cup {NoTimestamp},
                                rr \in Timestamps \cup {NoTimestamp}}

\* line 136: datetime.timedelta(seconds=5)
FallbackSeconds == 5

\* line 128: remaining_tokens == 0; text never equals an integer
EqualsZero(value) == value.type = "int" /\ value.n = 0

\* lines 128-131: the header the reset time is read from
ResetKey(remaining_tokens) ==
    IF EqualsZero(remaining_tokens) THEN TokensReset ELSE RequestsReset

\* the seconds east of UTC a timestamp's suffix states
UtcOffset(form) == IF form = "plus1" THEN 3600 ELSE 0

\* line 134: datetime.datetime.fromisoformat (Python 3.11: Z is accepted)
FromIsoFormat(text) ==
    IF text.form = "garbage"
    THEN [ok |-> FALSE, aware |-> FALSE, wall |-> 0, utcoffset |-> 0]
    ELSE [ok |-> TRUE, aware |-> text.form # "naive", wall |-> text.sec,
          utcoffset |-> UtcOffset(text.form)]

\* lines 139-141: datetime.datetime.now(tz=datetime.timezone.utc)
NowUtc(clock) == [ok |-> TRUE, aware |-> TRUE, wall |-> clock, utcoffset |-> 0]

Timedelta(seconds) == [kind |-> "timedelta", seconds |-> seconds, error |-> ""]

Raises(error) == [kind |-> "raised", seconds |-> 0, error |-> error]

NoAdvice == [kind |-> "None", seconds |-> 0, error |-> ""]

\* line 143: reset_time - now; a naive and an aware datetime do not subtract
Subtract(a, b) ==
    IF a.aware # b.aware
    THEN Raises("TypeError")
    ELSE Timedelta((a.wall - a.utcoffset) - (b.wall - b.utcoffset))

\* lines 129-143: the cooldown read from the header `key`
CooldownFrom(headers, key, clock) ==
    IF key \notin DOMAIN headers
    THEN Raises("KeyError")
    ELSE LET reset_time == FromIsoFormat(headers[key]) IN
         IF ~reset_time.ok
         THEN Timedelta(FallbackSeconds)
         ELSE Subtract(reset_time, NowUtc(clock))

\* lines 123-143
RateLimitSleep(headers, clock) ==
    IF TokensRemaining \notin DOMAIN headers
    THEN NoAdvice
    ELSE CooldownFrom(headers, ResetKey(headers[TokensRemaining]), clock)

InitRateLimit ==
    /\ rlIn \in [headers : Signals, now : Clock]
    /\ rlOut = NotCalled
    /\ adapterIn = <<>>
    /\ adapterOut = NotCalled
    /\ run = IdleRun
    /\ other = IdleRun
    /\ web = IdleWeb
    /\ optIn = IdleOptions
    /\ optOut = NotCalled

Advise ==
    /\ rlOut = NotCalled
    /\ rlOut' = [called |-> TRUE, out |-> RateLimitSleep(rlIn.headers, rlIn.now)]
    /\ UNCHANGED <<rlIn, adapterIn, adapterOut, run, optIn, optOut, other, web>>

NextRateLimit == Advise

SpecRateLimit == InitRateLimit /\ [][NextRateLimit]_vars

(***************************************************************************)
(* The request options of single_attempt, bedrock_client.py lines 72-84.   *)
(* They depend on the configuration and the arguments only, so they are    *)
(* modelled apart from the run.  Temperatures are in tenths.               *)
(***************************************************************************)
\* line 15
MAX_TOKENS == 4096

\* line 16
MAX_TOKENS_SONNET == 4096

\* self.config.model
ModelIds == {"anthropic.claude-3-7-sonnet-20250219-v1:0", "claude-3-5-sonnet",
             "claude-3-opus", "claude-3-Sonnet", "SONNET", "sonne", "gpt-4o", ""}

NoTemperature == [some |-> FALSE, tenths |-> 0]

\* the temperature argument of _make_request: None or a number
TemperatureArgs == {NoTemperature} \cup [some : {TRUE}, tenths : {0, 7}]

\* self.config.temperature
ConfigTemperatures == {2, 5}

Configurations ==
    [model : ModelIds, config_temperature : ConfigTemperatures,
     temperature : TemperatureArgs, json_mode : BOOLEAN]

\* line 80: "sonnet" in self.config.model
Contains(text, part) ==
    \E i \in 1..(Len(text) - Len(part) + 1) :
        SubSeq(text, i, i + Len(part) - 1) = part

\* lines 72-84: completion_kwargs without its messages
CompletionKwargs(cfg) ==
    [max_tokens |-> IF Contains(cfg.model, "sonnet")
                    THEN MAX_TOKENS_SONNET ELSE MAX_TOKENS,
     model |-> cfg.model,
     temperature |-> IF cfg.temperature.some
                     THEN cfg.temperature.tenths ELSE cfg.config_temperature,
     extra_headers |-> "anthropic-version: bedrock-2023-05-31",
     response_format |-> IF cfg.json_mode THEN "json_object" ELSE "absent"]

InitOptions ==
    /\ optIn \in Configurations
    /\ optOut = NotCalled
    /\ adapterIn = <<>>
    /\ adapterOut = NotCalled
    /\ run = IdleRun
    /\ other = IdleRun
    /\ web = IdleWeb
    /\ rlIn = IdleRateLimit
    /\ rlOut = NotCalled

BuildKwargs ==
    /\ optOut = NotCalled
    /\ optOut' = [called |-> TRUE, out |-> CompletionKwargs(optIn)]
    /\ UNCHANGED <<optIn, adapterIn, adapterOut, run, rlIn, rlOut, other, web>>

NextOptions == BuildKwargs

SpecOptions == InitOptions /\ [][NextOptions]_vars

(***************************************************************************)
(* The adapter's contract, stated from the specification and not from the  *)
(* loop: turns are the maximal runs of messages of one mapped role.        *)
(***************************************************************************)
HasFunctionRole(c) == \E i \in DOMAIN c : c[i].role = "function"

\* the output role the specification gives each input role
TurnRole(role) ==
    CASE role = "user" -> "user"
      [] role = "system" -> "user"
      [] role = "assistant" -> "assistant"

\* the positions at which a maximal run of one mapped role starts
RunStarts(c) ==
    {i \in DOMAIN c : i = 1 \/ TurnRole(c[i].role) # TurnRole(c[i - 1].role)}

\* the k-th smallest element of a set of positions
KthOf(S, k) == CHOOSE i \in S : Cardinality({j \in S : j < i}) = k - 1

\* the last position of the maximal run that starts at s
RunEnd(c, s) ==
    CHOOSE e \in s..Len(c) :
        /\ \A j \in s..e : TurnRole(c[j].role) = TurnRole(c[s].role)
        /\ e = Len(c) \/ TurnRole(c[e + 1].role) # TurnRole(c[s].role)

\* the contents of positions s..e joined by the blank-line separator
RECURSIVE JoinContents(_, _, _)
JoinContents(c, s, e) ==
    IF s > e THEN ""
    ELSE IF s = e THEN c[s].content
    ELSE c[s].content \o "\n\n" \o JoinContents(c, s + 1, e)

AdapterReturned == adapterOut.called /\ ~adapterOut.out.raised

\* C6: for a conversation without a function-role message, transform returns
\* turns whose roles are all user or assistant, and no two adjacent turns
\* have the same role.
C6_AlternatingRoles ==
    (adapterOut.called /\ ~HasFunctionRole(adapterIn)) =>
        /\ ~adapterOut.out.raised
        /\ LET turns == adapterOut.out.messages IN
           /\ \A i \in DOMAIN turns : turns[i].role \in {"user", "assistant"}
           /\ \A i \in 1..(Len(turns) - 1) : turns[i].role # turns[i + 1].role

\* a conversation with adjacent messages of one mapped role has been merged
C6_Witness ==
    /\ AdapterReturned
    /\ Len(adapterIn) = 4
    /\ adapterIn[1].role = "user" /\ adapterIn[2].role = "system"
    /\ adapterIn[3].role = "assistant" /\ adapterIn[4].role = "user"
    /\ Len(adapterOut.out.messages) = 3

\* C7: merging preserves content and order: user and system map to user,
\* assistant to assistant; the k-th turn is the k-th maximal run of messages
\* of one mapped role, its content their contents in order joined by the
\* blank-line separator; joining the turns by the separator gives the same
\* text as joining the messages; the empty conversation gives no turn.
C7_ContentPreserving ==
    (adapterOut.called /\ ~HasFunctionRole(adapterIn)) =>
        /\ ~adapterOut.out.raised
        /\ LET turns == adapterOut.out.messages
               starts == RunStarts(adapterIn)
           IN
           /\ Len(turns) = Cardinality(starts)
           /\ \A k \in DOMAIN turns :
                LET s == KthOf(starts, k) IN
                /\ turns[k].role = TurnRole(adapterIn[s].role)
                /\ turns[k].content =
                       JoinContents(adapterIn, s, RunEnd(adapterIn, s))
           /\ JoinContents(turns, 1, Len(turns)) =
                  JoinContents(adapterIn, 1, Len(adapterIn))
           /\ (adapterIn = <<>> => turns = <<>>)

\* the shape of the specification's example: user, system, assistant, user
\* gives three turns, the first holding the first two contents
C7_Witness ==
    /\ AdapterReturned
    /\ Len(adapterIn) = 4
    /\ adapterIn[1] = [role |-> "user", content |-> "Hi"]
    /\ adapterIn[2] = [role |-> "system", content |-> "a\n\nb"]
    /\ adapterIn[3].role = "assistant" /\ adapterIn[4].role = "user"
    /\ Len(adapterOut.out.messages) = 3
    /\ adapterOut.out.messages[1] = [role |-> "user", content |-> "Hi\n\na\n\nb"]


(***************************************************************************)
(* What an observer of one _make_request call can say about it.            *)
(***************************************************************************)
IsIncomplete(exc) == exc.kind = "CustomAssertionError"

\* every single_attempt that raised so far raised the incomplete-stream error
AllIncomplete(r) == \A i \in DOMAIN r.raisedBy : IsIncomplete(r.raisedBy[i])

Terminated(r) == r.pc \in {"returned", "raised"}

\* the texts text_stream yielded during attempt a, in arrival order
WireTexts(r, a) ==
    LET mine == SelectSeq(r.wire, LAMBDA e : e.attempt = a)
    IN [i \in DOMAIN mine |-> mine[i].text]

\* the handler calls made during attempt a, in order
SinkCalls(r, a) == SelectSeq(r.sink, LAMBDA e : e.attempt = a)

\* the usage of the final message received during attempt a
FinalsOf(r, a) == SelectSeq(r.finals, LAMBDA e : e.attempt = a)

\* C1: when the first k attempts raise IncompleteStreamError and attempt
\* k+1 succeeds (0 <= k <= retry_count), the run returns what that attempt
\* returned, after exactly k+1 attempts and exactly k sleeps; every sleep is
\* 1 second long whatever the attempt number; and the run never gives up
\* while only IncompleteStreamErrors were raised and attempts remain.
C1_RetriesThenSucceeds ==
    /\ \A i \in DOMAIN run.sleeps : run.sleeps[i] = 1
    /\ run.returnedBy # <<>> =>
         LET k == Len(run.raisedBy) IN
         /\ AllIncomplete(run)
         /\ 0 <= k /\ k <= run.retry_count
         /\ Len(run.returnedBy) = 1
         /\ run.returnedBy[1].attempt = k + 1
         /\ run.attempts = k + 1
         /\ Len(run.sleeps) = k
         /\ run.pc = "returned"
         /\ run.result = run.returnedBy[1].value
    /\ (run.pc = "raised" /\ AllIncomplete(run)
          /\ Len(run.raisedBy) <= run.retry_count) =>
         (run.error.kind = "CancelledError" /\ run.error.at = "sleep")

\* the specification's example: retry_count = 2, two incomplete streams,
\* then a result after two sleeps
C1_Witness ==
    /\ run.pc = "returned"
    /\ run.retry_count = 2
    /\ Len(run.raisedBy) = 2 /\ AllIncomplete(run)
    /\ run.attempts = 3
    /\ run.sleeps = <<1, 1>>
    /\ run.result.kind = "tuple"

\* C2: when every one of the retry_count + 1 attempts raises
\* IncompleteStreamError, the run raises IncompleteStreamError after exactly
\* retry_count + 1 attempts and retry_count sleeps (none after the last
\* attempt), and the error raised carries the attempt count retry_count + 1
\* and the message of the last attempt's error.
C2_ExhaustionRaises ==
    /\ (run.attempts >= 1 /\ AllIncomplete(run)
          /\ Len(run.raisedBy) = run.retry_count + 1) =>
         /\ run.pc \in {"except", "raised"}
         /\ run.attempts = run.retry_count + 1
         /\ Len(run.sleeps) = run.retry_count
         /\ run.returnedBy = <<>>
         /\ run.pc = "raised" =>
              /\ IsIncomplete(run.error)
              /\ run.error.attempts = run.attempts
              /\ run.error.msg = run.raisedBy[Len(run.raisedBy)].msg
    /\ (run.pc = "raised" /\ IsIncomplete(run.error)) =>
         /\ AllIncomplete(run)
         /\ Len(run.raisedBy) = run.retry_count + 1

\* the specification's example: retry_count = 1, two attempts, count 2
C2_Witness ==
    /\ run.pc = "raised"
    /\ run.retry_count = 1
    /\ run.attempts = 2
    /\ run.sleeps = <<1>>
    /\ IsIncomplete(run.error)
    /\ run.error.attempts = 2
    /\ run.error.msg = "No final message received."

\* C3: an attempt that raises anything but IncompleteStreamError ends the
\* run: the run raises that very exception, with no sleep after it and no
\* further attempt, however many attempts remain.
C3_OtherFailuresPropagate ==
    \A i \in DOMAIN run.raisedBy :
        ~IsIncomplete(run.raisedBy[i]) =>
            /\ i = Len(run.raisedBy)
            /\ run.attempts = i
            /\ Len(run.sleeps) = i - 1
            /\ run.pc \in {"except", "raised"}
            /\ run.pc = "raised" => run.error = run.raisedBy[i]

\* a provider error on the second of three allowed attempts ended the run
C3_Witness ==
    /\ run.pc = "raised"
    /\ run.retry_count = 2
    /\ run.attempts = 2
    /\ run.error.kind = "ProviderError"
    /\ run.sleeps = <<1>>

\* C4: a call that returns, for any conversation, transport behaviour and
\* retry_count, returns the tuple of one attempt that finished: the joined
\* text of that attempt's fragments and the usage of its final message;
\* never None and never a partial result.
C4_CompleteResultOrError ==
    run.pc = "returned" =>
        /\ run.result.kind = "tuple"
        /\ FinalsOf(run, run.attempts) # <<>>
        /\ run.result.text = JoinStr(WireTexts(run, run.attempts))
        /\ run.result.input_tokens =
               FinalsOf(run, run.attempts)[1].usage.input_tokens
        /\ run.result.output_tokens =
               FinalsOf(run, run.attempts)[1].usage.output_tokens

\* C5: with a handler configured, a successful attempt calls it with that
\* attempt's fragments (zero or more) and then exactly once with None, the
\* last call of the attempt; an attempt that failed before its stream was
\* opened never called it.
C5_SinkProtocol ==
    /\ (run.handler /\ run.returnedBy # <<>>) =>
         LET calls == SinkCalls(run, run.attempts)
             texts == WireTexts(run, run.attempts)
         IN
         /\ Len(calls) = Len(texts) + 1
         /\ \A i \in DOMAIN texts :
                ~calls[i].end /\ calls[i].text = texts[i]
         /\ calls[Len(calls)].end
         /\ run.sink[Len(run.sink)] = calls[Len(calls)]
    /\ \A i \in DOMAIN run.raisedBy :
         run.raisedBy[i].at \in {"adapt", "open"} => SinkCalls(run, i) = <<>>

\* the successful attempt of a run with a handler streamed two fragments and
\* then the sentinel
C5_Witness ==
    /\ run.handler
    /\ run.pc = "returned"
    /\ run.result.kind = "tuple"
    /\ Len(SinkCalls(run, run.attempts)) = 3
    /\ run.sink[Len(run.sink)].end

\* C8: a conversation with a function-role message at any position makes
\* the request fail with the unsupported-role error (ValueError) before any
\* streaming attempt: no stream is opened, the handler is never called, no
\* sleep happens, nothing is retried.
C8_FunctionRoleFailsFirst ==
    HasFunctionRole(run.convo) =>
        /\ run.opens = 0
        /\ run.sink = <<>>
        /\ run.sleeps = <<>>
        /\ run.attempts <= 1
        /\ Terminated(run) =>
             /\ run.pc = "raised"
             /\ run.error.kind = "ValueError"
             /\ run.error.at = "adapt"

\* C9: the text returned is the concatenation, in arrival order, of exactly
\* the fragments streamed during the attempt that returned; fragments of
\* earlier failed attempts of the run are not in it.
C9_TextOfSuccessfulAttempt ==
    run.returnedBy # <<>> =>
        /\ run.result.kind = "tuple"
        /\ run.result.text = JoinStr(WireTexts(run, run.attempts))

\* the first attempt streamed "a" and failed; the second streamed "b"
C9_Witness ==
    /\ run.pc = "returned"
    /\ run.attempts = 2
    /\ WireTexts(run, 1) = <<"a">>
    /\ WireTexts(run, 2) = <<"b">>
    /\ run.result.text = "b"


(***************************************************************************)
(* The advisor's contract.                                                 *)
(***************************************************************************)
\* C10: the reset timestamp is chosen by the remaining-request-tokens value:
\* present and equal to zero, the cooldown is the one derived from the
\* token-budget reset timestamp; present and not zero, the one derived from
\* the request-count reset timestamp.  So remaining 0, token reset
\* 2024-01-01T00:00:05Z and the clock at 2024-01-01T00:00:00Z give 5 seconds
\* whatever the request-count reset timestamp is.
C10_ChoosesByRemaining ==
    (rlOut.called /\ TokensRemaining \in DOMAIN rlIn.headers) =>
        LET chosen == IF rlIn.headers[TokensRemaining].n = 0
                      THEN TokensReset ELSE RequestsReset
        IN
        /\ rlOut.out = CooldownFrom(rlIn.headers, chosen, rlIn.now)
        /\ (/\ rlIn.headers[TokensRemaining].n = 0
            /\ TokensReset \in DOMAIN rlIn.headers
            /\ rlIn.headers[TokensReset] = [form |-> "utc", sec |-> 5]
            /\ rlIn.now = 0) => rlOut.out = Timedelta(5)


\* C11: adviseCooldown never raises, and for every signal: no advice when
\* the remaining-request-tokens indicator is absent; otherwise the fixed
\* fallback of 5 seconds when the chosen reset timestamp does not parse;
\* otherwise exactly the chosen reset time minus the current UTC time,
\* unclamped (negative once the reset time has passed).
C11_NeverRaisesAndMatchesReference ==
    rlOut.called =>
        /\ rlOut.out.kind # "raised"
        /\ TokensRemaining \notin DOMAIN rlIn.headers => rlOut.out = NoAdvice
        /\ TokensRemaining \in DOMAIN rlIn.headers =>
             LET key == ResetKey(rlIn.headers[TokensRemaining]) IN
             key \in DOMAIN rlIn.headers =>
                 LET text == rlIn.headers[key] IN
                 /\ text.form = "garbage" => rlOut.out = Timedelta(5)
                 /\ text.form \in {"utc", "plus1"} =>
                      rlOut.out =
                          Timedelta((text.sec - UtcOffset(text.form)) - rlIn.now)


(***************************************************************************)
(* The output cap.                                                         *)
(***************************************************************************)
\* C12: the output cap sent to the transport depends on the model
\* identifier only: an identifier that contains sonnet (case-sensitive) gets
\* the model-specific cap, which is higher than the default cap; any other
\* identifier gets the default cap.
C12_SonnetGetsHigherCap ==
    optOut.called =>
        IF Contains(optIn.model, "sonnet")
        THEN /\ optOut.out.max_tokens = MAX_TOKENS_SONNET
             /\ optOut.out.max_tokens > MAX_TOKENS
        ELSE optOut.out.max_tokens = MAX_TOKENS


\* the texts of the handler calls that carried a fragment during attempt a
SinkTexts(r, a) ==
    LET mine == SelectSeq(r.sink, LAMBDA e : e.attempt = a /\ ~e.end)
    IN [i \in DOMAIN mine |-> mine[i].text]

\* C13: within one attempt the handler receives the fragments in exactly
\* the order text_stream yielded them, and the next fragment is not asked
\* for before the handler call for the one before has returned: at most one
\* handler call is outstanding, and none while the attempt waits for a
\* fragment.
C13_OrderedAndThrottled ==
    run.handler =>
        /\ \A a \in 1..run.attempts : SinkTexts(run, a) = WireTexts(run, a)
        /\ Len(run.sink) - run.returns \in {0, 1}
        /\ run.pc = "stream" => Len(run.sink) = run.returns
        /\ Len(run.sink) > run.returns =>
             run.pc \in {"sink", "exit", "sentinel", "except", "raised"}

\* the second fragment of an attempt is with the handler, the first call
\* has returned
C13_Witness ==
    /\ run.handler
    /\ run.pc = "sink"
    /\ WireTexts(run, run.attempts) = <<"a", "b">>
    /\ SinkTexts(run, run.attempts) = <<"a", "b">>
    /\ run.returns = 1


\* C14: when an in-flight attempt is cancelled while it waits for a
\* fragment, inside a handler call or during finalization, the sentinel is
\* still handed to the handler before the cancellation reaches the caller:
\* no cancelled attempt leaves the handler without a sentinel.
C14_SentinelBeforeCancellation ==
    (run.handler /\ run.pc = "raised") =>
        \A i \in DOMAIN run.raisedBy :
            (/\ run.raisedBy[i].kind = "CancelledError"
             /\ run.raisedBy[i].at \in {"stream", "sink", "final"}) =>
                /\ SinkCalls(run, i) # <<>>
                /\ SinkCalls(run, i)[Len(SinkCalls(run, i))].end


\* the attempt of this fault delivered no sentinel and returned no result
NothingDelivered(r, f) ==
    /\ \A i \in DOMAIN r.sink : r.sink[i].attempt = f.attempt => ~r.sink[i].end
    /\ \A i \in DOMAIN r.returnedBy : r.returnedBy[i].attempt # f.attempt

\* the closing of the stream after this fault was itself cut short: the
\* task was cancelled during it, or it raised a failure of its own
CloseInterfered(r, j) ==
    LET f == r.faults[j] IN
    \/ /\ r.raisedBy[f.attempt].kind = "CancelledError"
       /\ r.raisedBy[f.attempt].at = "exit"
    \/ \E k \in DOMAIN r.faults :
          k > j /\ r.faults[k].attempt = f.attempt /\ r.faults[k].at = "exit"

\* C15 as stated: an assertion failure of the finalization, after the
\* stream ended, leaves the attempt as IncompleteStreamError
\* (CustomAssertionError); any other failure of the transport, on opening,
\* while streaming or on finalization, leaves the attempt as it was raised;
\* either way the attempt delivers no sentinel and returns no result.
C15_FailuresLeaveAsRaised ==
    \A j \in DOMAIN run.faults :
        LET f == run.faults[j] IN
        /\ f.attempt \in DOMAIN run.raisedBy =>
             LET e == run.raisedBy[f.attempt] IN
             IF f.at = "final" /\ f.kind = "AssertionError"
             THEN e.kind = "CustomAssertionError"
             ELSE e.kind = f.kind /\ e.at = f.at
        /\ NothingDelivered(run, f)

\* C15, amended: as stated, provided the closing of the stream that
\* follows the failure completes: then an assertion failure of the
\* finalization leaves the attempt as IncompleteStreamError and is retried
\* while attempts remain, and any other failure leaves it as it was raised
\* and ends the run.  When the task is cancelled during the close, or the
\* close fails itself, the cancellation or that later failure leaves the
\* attempt instead.  In every case the attempt delivers no sentinel and
\* returns no result.
C15_FailuresLeaveUnlessCloseInterferes ==
    \A j \in DOMAIN run.faults :
        LET f == run.faults[j] IN
        /\ f.attempt \notin DOMAIN run.raisedBy =>
             /\ f.attempt = run.attempts
             /\ run.pc = "exit"
             /\ run.leaving # NoExc
        /\ f.attempt \in DOMAIN run.raisedBy =>
             LET e == run.raisedBy[f.attempt] IN
             IF CloseInterfered(run, j)
             THEN e.kind \in {"CancelledError", "ProviderError", "AssertionError"}
                  /\ e.at = "exit"
             ELSE IF f.at = "final" /\ f.kind = "AssertionError"
             THEN /\ e.kind = "CustomAssertionError"
                  /\ (f.attempt <= run.retry_count /\ f.attempt = run.attempts)
                       => \/ run.pc \in {"except", "sleep", "loop"}
                          \/ run.pc = "raised" /\ run.error.kind = "CancelledError"
             ELSE /\ e.kind = f.kind
                  /\ e.at = f.at
                  /\ f.attempt = run.attempts
                  /\ run.pc \in {"except", "raised"}
                  /\ run.pc = "raised" => run.error = e
        /\ NothingDelivered(run, f)

\* one retry was allowed; get_final_message tripped the assertion in the
\* first attempt and the task was cancelled while the stream was being
\* closed: the run raised the cancellation, without a sleep or a retry
C15_Witness ==
    /\ run.pc = "raised"
    /\ run.retry_count = 1
    /\ run.faults = << [attempt |-> 1, at |-> "final", kind |-> "AssertionError"] >>
    /\ run.raisedBy[1].kind = "CancelledError"
    /\ run.error.kind = "CancelledError"
    /\ run.error.at = "exit"
    /\ run.sleeps = <<>>
    /\ run.attempts = 1

\* the handler calls that carried a fragment, as (attempt, text)
SinkFragments(r) ==
    LET frags == SelectSeq(r.sink, LAMBDA e : ~e.end)
    IN [i \in DOMAIN frags |-> [attempt |-> frags[i].attempt, text |-> frags[i].text]]

\* C16: delivery across retries is at-least-once: what the handler has
\* seen is, at every moment, every fragment of every attempt so far, each
\* attempt from its first fragment, in attempt order; nothing delivered by
\* a failed attempt is withdrawn, and nothing stands between the fragments
\* of a failed attempt and those of the next one: a sentinel can only be
\* the last call.
C16_AtLeastOnceAcrossRetries ==
    run.handler =>
        /\ Len(run.sink) \in {Len(run.wire), Len(run.wire) + 1}
        /\ \A i \in DOMAIN run.wire :
               /\ ~run.sink[i].end
               /\ run.sink[i].attempt = run.wire[i].attempt
               /\ run.sink[i].text = run.wire[i].text
               /\ i > 1 => run.wire[i - 1].attempt <= run.wire[i].attempt
        /\ Len(run.sink) > Len(run.wire) => run.sink[Len(run.sink)].end

\* attempt 1 delivered "a" and ended incomplete; attempt 2 delivered "a"
\* again: the handler has seen a, a
C16_Witness ==
    /\ run.handler
    /\ run.attempts = 2
    /\ run.raisedBy[1].kind = "CustomAssertionError"
    /\ run.sink = << [attempt |-> 1, end |-> FALSE, text |-> "a"],
                     [attempt |-> 2, end |-> FALSE, text |-> "a"] >>


\* C18: the conversation is read-only: neither _adapt_messages nor a whole
\* run, failed and retried attempts included, changes the caller's message
\* list or a message's role or content, and every attempt of one run hands
\* the same turns to the transport: those _adapt_messages makes of the
\* list as it was given.
C18_ConversationReadOnly ==
    /\ adapterOut.called => adapterOut.out.given = adapterIn
    /\ run.pc # "idle" =>
         /\ run.convo = run.given
         /\ \A i \in DOMAIN run.sent : run.sent[i] = run.sent[1]
         /\ run.sent # <<>> => run.sent[1] = AdaptMessages(run.given).messages

\* two user messages were merged into one turn, and a retried run has
\* sent that turn twice, with the caller's two messages as they were
C18_Witness ==
    /\ run.pc = "returned"
    /\ run.given = << [role |-> "user", content |-> "Hi"],
                      [role |-> "user", content |-> "Hi"] >>
    /\ run.convo = run.given
    /\ run.sent = << << [role |-> "user", content |-> "Hi\n\nHi"] >>,
                     << [role |-> "user", content |-> "Hi\n\nHi"] >> >>


\* the handler calls that carried the sentinel None
Sentinels(r) == SelectSeq(r.sink, LAMBDA e : e.end)

\* the last attempt left single_attempt from the await of
\* stream_handler(None): the call raised, or the task was cancelled while
\* the call was awaited
LeftAtSentinel(r) ==
    /\ r.raisedBy # <<>>
    /\ r.raisedBy[Len(r.raisedBy)].at = "sentinel"
    /\ r.raisedBy[Len(r.raisedBy)].kind \in HandlerErrors \cup {"CancelledError"}

\* C19 as stated: over a whole run the sentinel is delivered at most once;
\* it is delivered if and only if the run returns a result and is then the
\* last handler call; a run that raises has delivered no sentinel.
C19_SentinelIffResult ==
    (run.handler /\ Terminated(run)) =>
        /\ Len(Sentinels(run)) <= 1
        /\ Len(Sentinels(run)) = 1 <=>
               (run.pc = "returned" /\ run.result.kind = "tuple")
        /\ Len(Sentinels(run)) = 1 => run.sink[Len(run.sink)].end
        /\ run.pc = "raised" => Sentinels(run) = <<>>

\* C19, amended: over a whole run the handler is called with the sentinel
\* at most once, and that call is the last handler call of the run; a run
\* with a handler that returns a text and usage has made it, and a run that
\* returns without an attempt has called the handler not at all.  A run
\* that raises has made no sentinel call, with one exception: the run
\* ended in the sentinel call itself, because that call raised or because
\* the task was cancelled while the call was awaited.  Then the sentinel
\* has been handed to the handler and the run raises the handler's
\* exception or the cancellation, without a sleep or a further attempt.
C19_SentinelAtMostOnceAndLast ==
    /\ ~run.handler => run.sink = <<>>
    /\ run.handler =>
         /\ Len(Sentinels(run)) <= 1
         /\ \A i \in DOMAIN run.sink : run.sink[i].end => i = Len(run.sink)
         /\ (run.pc = "returned" /\ run.result.kind = "tuple") =>
                Len(Sentinels(run)) = 1
         /\ (run.pc = "returned" /\ run.result.kind = "None") => run.sink = <<>>
         /\ Len(Sentinels(run)) = 1 =>
                \/ run.pc \in {"sentinel", "returned"}
                \/ run.pc \in {"except", "raised"} /\ LeftAtSentinel(run)
         /\ (run.pc = "raised" /\ Sentinels(run) # <<>>) =>
                /\ LeftAtSentinel(run)
                /\ run.error = run.raisedBy[Len(run.raisedBy)]
         /\ \A i \in DOMAIN run.raisedBy :
                run.raisedBy[i].at = "sentinel" =>
                    /\ i = Len(run.raisedBy)
                    /\ run.attempts = i
                    /\ Len(run.sleeps) = i - 1
                    /\ Len(Sentinels(run)) = 1
                    /\ run.sink[Len(run.sink)].attempt = i
                    /\ run.pc \in {"except", "raised"}

\* the second attempt of a retried run streamed a fragment and received
\* its final message, and the handler raised when it was told the stream
\* is over: the run raised the handler's exception, the sentinel call has
\* been made and is the last handler call
C19_Witness ==
    /\ run.handler
    /\ run.pc = "raised"
    /\ run.attempts = 2
    /\ run.raisedBy[1].kind = "CustomAssertionError"
    /\ run.error.kind = "UIClosedError"
    /\ run.error.at = "sentinel"
    /\ Len(Sentinels(run)) = 1
    /\ Len(run.sink) = 2
    /\ run.sink[1].attempt = 2
    /\ run.sink[2].end
    /\ run.sleeps = <<1>>


\* the outcome of a call follows from what its own transport did: the text
\* is the join of the fragments of its own last attempt, the usage that of
\* its own final message, the attempts one more than its own failures with
\* one sleep per failure; its error is the one its own last attempt raised,
\* or the exhaustion of its own retries, or its cancellation; its handler
\* saw its own fragments and its conversation is as it was given
OwnOutcome(r) ==
    /\ r.convo = r.given
    /\ r.handler => SinkFragments(r) = r.wire
    /\ ~r.handler => r.sink = <<>>
    /\ r.attempts <= r.retry_count + 1
    /\ r.pc = "returned" =>
         /\ r.result.kind = "tuple"
         /\ r.result.text = JoinStr(WireTexts(r, r.attempts))
         /\ r.result.input_tokens = FinalsOf(r, r.attempts)[1].usage.input_tokens
         /\ r.result.output_tokens = FinalsOf(r, r.attempts)[1].usage.output_tokens
         /\ r.attempts = Len(r.raisedBy) + 1
         /\ Len(r.sleeps) = Len(r.raisedBy)
         /\ AllIncomplete(r)
    /\ r.pc = "raised" =>
         \/ r.error.kind = "CancelledError" /\ r.error.at = "sleep"
         \/ /\ r.raisedBy # <<>>
            /\ LET last == r.raisedBy[Len(r.raisedBy)] IN
               IF IsIncomplete(last)
               THEN /\ r.error = ExhaustedError(r)
                    /\ Len(r.raisedBy) = r.retry_count + 1
                    /\ AllIncomplete(r)
               ELSE r.error = last

\* C17: two calls for two conversations interleave freely: while one is
\* suspended in its retry sleep the event loop can resume the other, and
\* the other can then take each of its steps (open its stream, receive a
\* fragment, have its handler return, receive the final message, return);
\* and the outcome of each call (text, usage, attempts, error) follows from
\* its own steps alone, as when it runs alone.
C17_RunsInterleaveFreely ==
    other.pc # "idle" =>
        /\ (run.pc = "sleep" /\ ~Terminated(other)) => ENABLED Switch
        /\ other.pc = "sleep" =>
             /\ run.pc = "loop" => ENABLED ForLoop
             /\ run.pc = "open" => ENABLED OpenStream
             /\ (run.pc = "stream" /\ Len(run.wire) < FragLimit) => ENABLED NextFragment
             /\ run.pc = "stream" => ENABLED StreamEnds
             /\ run.pc = "sink" => ENABLED SinkReturns
             /\ run.pc = "final" => ENABLED FinalMessage
             /\ run.pc = "exit" => ENABLED ExitReturns
             /\ run.pc = "sentinel" => ENABLED SentinelReturns
        /\ OwnOutcome(run)
        /\ OwnOutcome(other)

\* one call is in its retry sleep, having streamed nothing; the other has
\* meanwhile streamed a fragment to its handler and returned its text
C17_Witness ==
    /\ other.pc = "sleep"
    /\ other.sleeps = <<1>>
    /\ other.wire = <<>>
    /\ run.pc = "returned"
    /\ run.handler
    /\ run.result.text = "a"
    /\ Len(run.sink) = 2
    /\ run.attempts = 1


\* the ids issued so far
IssuedIds(w) == {w.issued[i] : i \in DOMAIN w.issued}

\* the ask_question task of this id was cancelled and has not run its
\* except clause yet
MidCancellation(w, id) ==
    \E i \in DOMAIN w.asks : w.asks[i].id = id /\ w.asks[i].pc = "cancelling"

\* C20: under any interleaving of ask_question calls, response messages
\* and cancellations, every ask_question gets a question id never issued
\* before, and pending_questions holds exactly the ids of the questions
\* asked and neither answered nor cancelled (a cancelled task that has not
\* yet run its except clause aside).
C20_PendingExactlyTheOpenQuestions ==
    web.constructed =>
        /\ \A i, j \in DOMAIN web.issued : i # j => web.issued[i] # web.issued[j]
        /\ web.pending_questions \subseteq IssuedIds(web)
        /\ \A id \in IssuedIds(web) :
               ~MidCancellation(web, id) =>
                   (id \in web.pending_questions
                      <=> id \notin (web.answered \cup web.cancelled))

=============================================================================
